---- MODULE Spec2Model ----
(***************************************************************************)
(* A model of the AnkiDict relational index: CSVParser (src/csv_parser.py) *)
(* as driven by main (src/main.py) and queried by AnkiGenerator            *)
(* (src/anki_generator.py).                                                *)
(*                                                                         *)
(* Python strings are sequences of one-character strings, so that strip,   *)
(* split, the substring test `in` and list(word) are computed and not      *)
(* assumed.  A CSV row is the list of fields csv.reader yields.  A dict is *)
(* a function whose DOMAIN is its key set; a Python set is a set; a list   *)
(* is a sequence.                                                          *)
(***************************************************************************)
EXTENDS Integers, Sequences, FiniteSets, TLC

VARIABLES words_data, pronunciations, char_to_words, pron_to_chars,
          char_homophones, seen_words, phase, result,
          log_a, rows_b, accepted_b, blob

vars == <<words_data, pronunciations, char_to_words, pron_to_chars,
          char_homophones, seen_words, phase, result,
          log_a, rows_b, accepted_b, blob>>

(* log_a: the rows of the first file read so far; rows_b: how many rows of *)
(* the second file were read; accepted_b: per word, the rows of the second *)
(* file that passed its checks, oldest first.                              *)

(* Bounds: how many rows of each source file one run ingests. *)
MaxRowsA == 2
MaxRowsB == 2

-----------------------------------------------------------------------------
(* Python string and container primitives *)

Whitespace == {" "}

RECURSIVE LStrip(_)
LStrip(s) ==
  IF s # <<>> /\ Head(s) \in Whitespace THEN LStrip(Tail(s)) ELSE s

RECURSIVE RStrip(_)
RStrip(s) ==
  IF s # <<>> /\ s[Len(s)] \in Whitespace
  THEN RStrip(SubSeq(s, 1, Len(s) - 1)) ELSE s

(* str.strip() *)
Strip(s) == RStrip(LStrip(s))

(* sub in s, for strings *)
Contains(sub, s) ==
  \E i \in 0..(Len(s) - Len(sub)) : SubSeq(s, i + 1, i + Len(sub)) = sub

(* position of the first occurrence of the one-character string ch, 0 if none *)
RECURSIVE FindFrom(_, _, _)
FindFrom(s, ch, i) ==
  IF i > Len(s) THEN 0
  ELSE IF s[i] = ch THEN i ELSE FindFrom(s, ch, i + 1)

(* s.split(ch): always at least one piece *)
RECURSIVE Split(_, _)
Split(s, ch) ==
  LET k == FindFrom(s, ch, 1) IN
  IF k = 0 THEN <<s>>
  ELSE <<SubSeq(s, 1, k - 1)>> \o Split(SubSeq(s, k + 1, Len(s)), ch)

(* s.split(ch, 1) when ch occurs in s *)
SplitOnce(s, ch) ==
  LET k == FindFrom(s, ch, 1) IN
  <<SubSeq(s, 1, k - 1), SubSeq(s, k + 1, Len(s))>>

(* row[a:b], 0-based and tolerant of short rows *)
Slice(row, a, b) ==
  LET hi == IF b < Len(row) THEN b ELSE Len(row) IN
  IF a + 1 > hi THEN <<>> ELSE SubSeq(row, a + 1, hi)

(* [x.strip() for x in xs if x.strip()] *)
StripNonEmpty(xs) ==
  LET stripped == [i \in 1..Len(xs) |-> Strip(xs[i])] IN
  SelectSeq(stripped, LAMBDA x : x # <<>>)

(* list(word): the one-character strings of word, in order *)
ListOf(word) == [i \in 1..Len(word) |-> <<word[i]>>]

SeqToSet(xs) == {xs[i] : i \in 1..Len(xs)}

RECURSIVE Flatten(_)
Flatten(xss) ==
  IF xss = <<>> THEN <<>> ELSE Head(xss) \o Flatten(Tail(xss))

EmptyDict == [k \in {} |-> k]

(* d.get(k, default) *)
DictGet(d, k, default) == IF k \in DOMAIN d THEN d[k] ELSE default

(* d[k] = v *)
DictPut(d, k, v) == [x \in DOMAIN d \cup {k} |-> IF x = k THEN v ELSE d[x]]

-----------------------------------------------------------------------------
(* The parser object as one record, for the row handlers *)

Index ==
  [words_data |-> words_data, pronunciations |-> pronunciations,
   char_to_words |-> char_to_words, pron_to_chars |-> pron_to_chars,
   char_homophones |-> char_homophones, seen_words |-> seen_words]

EmptyIndex ==
  [words_data |-> EmptyDict, pronunciations |-> EmptyDict,
   char_to_words |-> EmptyDict, pron_to_chars |-> EmptyDict,
   char_homophones |-> EmptyDict, seen_words |-> {}]

-----------------------------------------------------------------------------
(* parse_first_csv: the body of `for row in reader` *)

(* characters = [char.strip() for char in row[2:11] if char.strip()] *)
RowCharacters(row) == StripNonEmpty(Slice(row, 2, 11))

(* words_lists = [words.strip() for words in row[11:16] if words.strip()] *)
RowWordsLists(row) == StripNonEmpty(Slice(row, 11, 16))

(* words = [w.strip() for w in words_str.split(',') if w.strip()] *)
WordsOf(words_str) == StripNonEmpty(Split(words_str, ","))

(* the words of the row in the order the two nested loops visit them *)
RowWords(row) ==
  LET lists == RowWordsLists(row) IN
  Flatten([i \in 1..Len(lists) |-> WordsOf(lists[i])])

(* for char in characters: self.pronunciations[char] = pronunciation *)
SetPronunciations(prons, characters, pronunciation) ==
  [c \in DOMAIN prons \cup SeqToSet(characters) |->
     IF c \in SeqToSet(characters) THEN pronunciation ELSE prons[c]]

(* for char in characters: self.pron_to_chars[pronunciation].add(char) *)
AddPronChars(p2c, characters, pronunciation) ==
  IF characters = <<>> THEN p2c
  ELSE DictPut(p2c, pronunciation,
               DictGet(p2c, pronunciation, {}) \cup SeqToSet(characters))

(* AddHomophones without the test other_char != char *)
AddHomophones_WithSelf(homs, characters) ==
  IF Len(characters) > 1
  THEN LET cs == SeqToSet(characters)
       IN [c \in DOMAIN homs \cup cs |-> DictGet(homs, c, {}) \cup cs]
  ELSE homs

(* if len(characters) > 1: every other token of the row is a homophone *)
AddHomophones(homs, characters) ==
  IF Len(characters) > 1
  THEN LET cs == SeqToSet(characters)
           touched == {c \in cs : cs \ {c} # {}}
       IN [c \in DOMAIN homs \cup touched |->
             IF c \in touched THEN DictGet(homs, c, {}) \cup (cs \ {c})
             ELSE homs[c]]
  ELSE homs

(* word_chars: the row's character tokens that occur in the word *)
WordChars(characters, word) ==
  SelectSeq(characters, LAMBDA c : Contains(c, word))

(* StoreWordFirst with the pronunciation of a known word overwritten by     *)
(* every later row.                                                        *)
StoreWordFirst_LastPron(wd, word, pronunciation, word_chars, characters) ==
  IF word \notin DOMAIN wd
  THEN DictPut(wd, word, [pronunciation |-> pronunciation,
                          characters |-> word_chars,
                          all_characters |-> characters])
  ELSE LET old == wd[word]
           existing_chars == SeqToSet(old.characters)
           appended == old.characters \o
                       SelectSeq(word_chars, LAMBDA c : c \notin existing_chars)
       IN DictPut(wd, word, [old EXCEPT !.characters = appended,
                                        !.pronunciation = pronunciation])

(* StoreWordFirst with a known word's characters seeded again from the    *)
(* current row instead of extended.                                        *)
StoreWordFirst_Reseed(wd, word, pronunciation, word_chars, characters) ==
  IF word \notin DOMAIN wd
  THEN DictPut(wd, word, [pronunciation |-> pronunciation,
                          characters |-> word_chars,
                          all_characters |-> characters])
  ELSE LET old == wd[word]
           pron == IF old.pronunciation = <<>> THEN pronunciation
                   ELSE old.pronunciation
       IN DictPut(wd, word, [old EXCEPT !.characters = word_chars,
                                        !.pronunciation = pron])

(* StoreWordFirst seeding a new word from the characters of its own text   *)
(* and leaving a known word's characters alone.                            *)
StoreWordFirst_LiteralSeed(wd, word, pronunciation, word_chars, characters) ==
  IF word \notin DOMAIN wd
  THEN DictPut(wd, word, [pronunciation |-> pronunciation,
                          characters |-> ListOf(word),
                          all_characters |-> characters])
  ELSE LET old == wd[word]
           pron == IF old.pronunciation = <<>> THEN pronunciation
                   ELSE old.pronunciation
       IN DictPut(wd, word, [old EXCEPT !.pronunciation = pron])

(* the new-word / known-word branches that keep self.words_data[word] *)
StoreWordFirst(wd, word, pronunciation, word_chars, characters) ==
  IF word \notin DOMAIN wd
  THEN DictPut(wd, word, [pronunciation |-> pronunciation,
                          characters |-> word_chars,
                          all_characters |-> characters])
  ELSE LET old == wd[word]
           existing_chars == SeqToSet(old.characters)
           appended == old.characters \o
                       SelectSeq(word_chars, LAMBDA c : c \notin existing_chars)
           pron == IF old.pronunciation = <<>> THEN pronunciation
                   ELSE old.pronunciation
       IN DictPut(wd, word, [old EXCEPT !.characters = appended,
                                        !.pronunciation = pron])

(* LinkCharsToWord with assignment in place of add:                        *)
(* self.char_to_words[char] = {word}                                       *)
LinkCharsToWord_Overwrite(c2w, word_chars, word) ==
  [c \in DOMAIN c2w \cup SeqToSet(word_chars) |->
     IF c \in SeqToSet(word_chars) THEN {word} ELSE c2w[c]]

(* for char in word_chars: self.char_to_words[char].add(word) *)
LinkCharsToWord(c2w, word_chars, word) ==
  [c \in DOMAIN c2w \cup SeqToSet(word_chars) |->
     IF c \in SeqToSet(word_chars) THEN DictGet(c2w, c, {}) \cup {word}
     ELSE c2w[c]]

(* ProcessWord with the word linked to its characters only when the word   *)
(* was already in seen_words before this row (the is_new_word test applied *)
(* to the link, inverted).                                                 *)
ProcessWord_LinkSeenOnly(st, word, pronunciation, characters) ==
  LET word_chars == WordChars(characters, word) IN
  IF word_chars = <<>> THEN st
  ELSE [st EXCEPT
          !.seen_words = @ \cup {word},
          !.words_data = StoreWordFirst(@, word, pronunciation, word_chars,
                                        characters),
          !.char_to_words = IF word \in st.seen_words
                            THEN LinkCharsToWord(@, word_chars, word)
                            ELSE @]

(* the body of `for word in words` *)
ProcessWord(st, word, pronunciation, characters) ==
  LET word_chars == WordChars(characters, word) IN
  IF word_chars = <<>> THEN st
  ELSE [st EXCEPT
          !.seen_words = @ \cup {word},
          !.words_data = StoreWordFirst(@, word, pronunciation, word_chars,
                                        characters),
          !.char_to_words = LinkCharsToWord(@, word_chars, word)]

RECURSIVE ProcessWords(_, _, _, _)
ProcessWords(st, words, pronunciation, characters) ==
  IF words = <<>> THEN st
  ELSE ProcessWords(ProcessWord(st, Head(words), pronunciation, characters),
                    Tail(words), pronunciation, characters)

(* AcceptedFirst without the blank-pronunciation check *)
AcceptedFirst_LengthOnly(row) == Len(row) >= 2

(* a row is skipped when it is short or its pronunciation is blank *)
AcceptedFirst(row) == Len(row) >= 2 /\ Strip(row[2]) # <<>>

parse_first_row(st, row) ==
  IF ~AcceptedFirst(row) THEN st
  ELSE LET pronunciation == Strip(row[2])
           characters == RowCharacters(row)
           st1 == [st EXCEPT
                     !.pronunciations =
                        SetPronunciations(@, characters, pronunciation),
                     !.pron_to_chars =
                        AddPronChars(@, characters, pronunciation),
                     !.char_homophones = AddHomophones(@, characters)]
       IN ProcessWords(st1, RowWords(row), pronunciation, characters)

-----------------------------------------------------------------------------
(* _parse_translations *)

(* AddPart with assignment in place of extend:                             *)
(* translations[word_type] = meanings                                      *)
AddPart_Overwrite(translations, part) ==
  IF Contains(<<":">>, part)
  THEN LET pieces == SplitOnce(part, ":")
           word_type == Strip(pieces[1])
           meaning == Strip(pieces[2])
       IN IF word_type # <<>> /\ meaning # <<>>
          THEN DictPut(translations, word_type,
                       StripNonEmpty(Split(meaning, ",")))
          ELSE translations
  ELSE translations

(* one `for part in parts` iteration on the defaultdict(list) *)
AddPart(translations, part) ==
  IF Contains(<<":">>, part)
  THEN LET pieces == SplitOnce(part, ":")
           word_type == Strip(pieces[1])
           meaning == Strip(pieces[2])
       IN IF word_type # <<>> /\ meaning # <<>>
          THEN DictPut(translations, word_type,
                       DictGet(translations, word_type, <<>>) \o
                       StripNonEmpty(Split(meaning, ",")))
          ELSE translations
  ELSE translations

RECURSIVE AddParts(_, _)
AddParts(translations, parts) ==
  IF parts = <<>> THEN translations
  ELSE AddParts(AddPart(translations, Head(parts)), Tail(parts))

parse_translations(translation_str) ==
  LET raw == Split(translation_str, "|")
      parts == [i \in 1..Len(raw) |-> Strip(raw[i])]
  IN AddParts(EmptyDict, parts)

-----------------------------------------------------------------------------
(* parse_second_csv: the body of `for row in reader` *)

AcceptedSecond(row) ==
  Len(row) >= 3 /\ Strip(row[1]) # <<>> /\ Strip(row[3]) # <<>>

(* StoreWordSecond with the first file's rule for a known word: the       *)
(* pronunciation is filled only when it was empty.                         *)
StoreWordSecond_KeepFirst(wd, word, pronunciation, translations) ==
  LET known == word \in DOMAIN wd
      pron == IF known /\ wd[word].pronunciation # <<>>
              THEN wd[word].pronunciation ELSE pronunciation
  IN DictPut(wd, word, [pronunciation |-> pron,
                        characters |-> IF known THEN wd[word].characters
                                       ELSE ListOf(word),
                        all_characters |-> IF known
                                           THEN wd[word].all_characters
                                           ELSE <<>>,
                        translations |-> translations])

(* create the record or overwrite its pronunciation, then set translations *)
StoreWordSecond(wd, word, pronunciation, translations) ==
  LET chars == IF word \in DOMAIN wd THEN wd[word].characters
               ELSE ListOf(word)
      all_chars == IF word \in DOMAIN wd THEN wd[word].all_characters
                   ELSE <<>>
  IN DictPut(wd, word, [pronunciation |-> pronunciation,
                        characters |-> chars,
                        all_characters |-> all_chars,
                        translations |-> translations])

(* if char not in self.pronunciations: self.pronunciations[char] = ... *)
FillPronunciations(prons, word, pronunciation) ==
  [c \in DOMAIN prons \cup SeqToSet(ListOf(word)) |->
     IF c \in DOMAIN prons THEN prons[c] ELSE pronunciation]

(* parse_second_row with the characters of the word also recorded as each *)
(* other's homophones, which the source's comment rules out.               *)
parse_second_row_Homophones(st, row) ==
  IF ~AcceptedSecond(row) THEN st
  ELSE LET word == Strip(row[1])
           pronunciation == Strip(row[2])
           translations == parse_translations(Strip(row[3]))
       IN [st EXCEPT
             !.words_data =
                StoreWordSecond(@, word, pronunciation, translations),
             !.pronunciations = FillPronunciations(@, word, pronunciation),
             !.pron_to_chars = AddPronChars(@, ListOf(word), pronunciation),
             !.char_to_words = LinkCharsToWord(@, ListOf(word), word),
             !.char_homophones = AddHomophones(@, ListOf(word))]

parse_second_row(st, row) ==
  IF ~AcceptedSecond(row) THEN st
  ELSE LET word == Strip(row[1])
           pronunciation == Strip(row[2])
           translations == parse_translations(Strip(row[3]))
       IN [st EXCEPT
             !.words_data =
                StoreWordSecond(@, word, pronunciation, translations),
             !.pronunciations = FillPronunciations(@, word, pronunciation),
             !.pron_to_chars = AddPronChars(@, ListOf(word), pronunciation),
             !.char_to_words = LinkCharsToWord(@, ListOf(word), word)]

-----------------------------------------------------------------------------
(* Query interface *)

(* self.words_data.get(word, {}) *)
get_word_data(word) == DictGet(words_data, word, EmptyDict)

(* the key set of words_data; the list order is not modelled *)
get_all_words == DOMAIN words_data

(* get_char_analysis(self, char): list(set) is modelled as the set *)
get_char_analysis(char) ==
  [words |-> DictGet(char_to_words, char, {}),
   chars_with_same_pronunciation |-> DictGet(char_homophones, char, {})]

(* Binding positional arguments to get_char_analysis(self, char): any other *)
(* number of arguments raises TypeError before the body runs.              *)
CallGetCharAnalysis(args) ==
  IF Len(args) = 1
  THEN [raised |-> "none", value |-> get_char_analysis(args[1])]
  ELSE [raised |-> "TypeError"]

(* AnkiGenerator.generate_examples_html, one character of one word: the    *)
(* two-argument call, then the filters that drop the word and the character *)
AnalyzeInWord(char, word) ==
  LET analysis == CallGetCharAnalysis(<<char, word>>) IN
  IF analysis.raised # "none" THEN analysis
  ELSE [raised |-> "none",
        value |-> [words |-> analysis.value.words \ {word},
                   chars_with_same_pronunciation |->
                     analysis.value.chars_with_same_pronunciation \ {char}]]

-----------------------------------------------------------------------------
(* Input rows.  A source-A row is label; pronunciation; 9 character        *)
(* columns; 5 word-group columns.  A source-B row is word; pronunciation;  *)
(* translation blob.                                                       *)

Blanks(n) == [i \in 1..n |-> <<>>]

FirstRow(pron, chars, groups) ==
  <<<<"A">>, pron>> \o chars \o Blanks(9 - Len(chars))
                    \o groups \o Blanks(5 - Len(groups))

RowsA ==
  { FirstRow(<<"p">>, << <<"X">>, <<"Y">> >>,
             << <<"X", "Z", ",", "Y", "Z">> >>),
    FirstRow(<<" ", "q">>, << <<"X">> >>,
             << <<"X", "Z", ",", " ", "X", "Y">> >>),
    FirstRow(<<"q">>, << <<" ", "Y">>, <<"!">> >>,
             << <<"X", "Y", ",", "Z", "Z">>, <<"Y", "!">> >>),
    FirstRow(<<"p">>, << <<",">>, <<"Z">> >>, << <<"Z", "Z">> >>),
    << <<"A">> >>,
    FirstRow(<<" ">>, << <<"Z">> >>, << <<"Z", "Z">> >>) }

RowsB ==
  { << <<" ", "X", "Z">>, <<"s", " ">>, <<"n", ":", "a">> >>,
    << <<"X", "Z">>, <<"t">>,
       <<"n", ":", "a", ",", " ", "b", "|", "v", ":", "c", "|", "n", ":", "c">> >>,
    << <<"Z", "Y">>, <<"p">>, <<"v", ":", "a", "|", "b">> >>,
    << <<"X", "Y">>, <<>>, <<"a">> >>,
    << <<"X", "Z">>, <<"s">>, <<" ">> >>,
    << <<"X", "Z">>, <<"s">> >>,
    << <<" ">>, <<"s">>, <<"n", ":", "a">> >> }

(* the characters test.py asks about, and one never ingested *)
TestChars == { <<"X">>, <<"W">> }

(* the words test.py asks about: one that the rows mention, one unknown *)
TestWords == { <<"X", "Z">>, <<"W", "W">> }

NoResult == [op |-> "none"]

-----------------------------------------------------------------------------
(* The state machine: main.py runs parse_first_csv over the whole first    *)
(* file, then parse_second_csv over the whole second file, then queries.   *)

Init ==
  /\ words_data = EmptyDict
  /\ pronunciations = EmptyDict
  /\ char_to_words = EmptyDict
  /\ pron_to_chars = EmptyDict
  /\ char_homophones = EmptyDict
  /\ seen_words = {}
  /\ phase = "first"
  /\ result = NoResult
  /\ log_a = <<>>
  /\ rows_b = 0
  /\ accepted_b = EmptyDict
  /\ blob = <<>>

SetIndex(st) ==
  /\ words_data' = st.words_data
  /\ pronunciations' = st.pronunciations
  /\ char_to_words' = st.char_to_words
  /\ pron_to_chars' = st.pron_to_chars
  /\ char_homophones' = st.char_homophones
  /\ seen_words' = st.seen_words

IndexUnchanged ==
  UNCHANGED <<words_data, pronunciations, char_to_words, pron_to_chars,
              char_homophones, seen_words>>

(* one iteration of parse_first_csv's row loop *)
ParseFirstRow(row) ==
  /\ phase = "first"
  /\ Len(log_a) < MaxRowsA
  /\ SetIndex(parse_first_row(Index, row))
  /\ log_a' = Append(log_a, row)
  /\ UNCHANGED <<phase, result, rows_b, accepted_b, blob>>

(* the first file is exhausted; main goes on to parse_second_csv *)
FinishFirst ==
  /\ phase = "first"
  /\ phase' = "second"
  /\ IndexUnchanged
  /\ UNCHANGED <<result, log_a, rows_b, accepted_b, blob>>

(* one iteration of parse_second_csv's row loop *)
ParseSecondRow(row) ==
  /\ phase = "second"
  /\ rows_b < MaxRowsB
  /\ SetIndex(parse_second_row(Index, row))
  /\ rows_b' = rows_b + 1
  /\ accepted_b' =
       IF AcceptedSecond(row)
       THEN DictPut(accepted_b, Strip(row[1]),
                    Append(DictGet(accepted_b, Strip(row[1]), <<>>), row))
       ELSE accepted_b
  /\ UNCHANGED <<phase, result, log_a, blob>>

(* the second file is exhausted; the index is handed to the consumers *)
FinishSecond ==
  /\ phase = "second"
  /\ phase' = "query"
  /\ IndexUnchanged
  /\ UNCHANGED <<result, log_a, rows_b, accepted_b, blob>>

(* parser.get_word_data(word) *)
QueryWord(word) ==
  /\ phase = "query"
  /\ result' = [op |-> "get_word_data", word |-> word,
                out |-> get_word_data(word)]
  /\ IndexUnchanged
  /\ UNCHANGED <<phase, log_a, rows_b, accepted_b, blob>>

(* parser.get_char_analysis(char), the one-argument call of test.py *)
QueryChar(char) ==
  /\ phase = "query"
  /\ result' = [op |-> "get_char_analysis", char |-> char,
                out |-> CallGetCharAnalysis(<<char>>)]
  /\ IndexUnchanged
  /\ UNCHANGED <<phase, log_a, rows_b, accepted_b, blob>>

(* generate_examples_html for one character of one word's record *)
QueryCharInWord(char, word) ==
  /\ phase = "query"
  /\ word \in get_all_words
  /\ char \in SeqToSet(get_word_data(word).characters)
  /\ result' = [op |-> "analyze_in_word", char |-> char, word |-> word,
                out |-> AnalyzeInWord(char, word)]
  /\ IndexUnchanged
  /\ UNCHANGED <<phase, log_a, rows_b, accepted_b, blob>>

(* generate_deck's test for a card: the record has translations and one   *)
(* of the lists is not empty                                               *)
HasTranslations(word_data) ==
  /\ "translations" \in DOMAIN word_data
  /\ \E k \in DOMAIN word_data.translations :
       word_data.translations[k] # <<>>

(* AnkiGenerator.generate_deck, the whole call.  Words without            *)
(* translations are skipped.  For the first word with translations the    *)
(* loop over the other words reads parser.all_words_data, which CSVParser  *)
(* does not have: AttributeError.  With no other word the loop body never  *)
(* runs, word_data['wordHomophones'] = [] is stored in the record          *)
(* get_word_data returned, which is the parser's own dict, and             *)
(* generate_examples_html then makes the two-argument call.  main ends     *)
(* with generate_deck.                                                     *)
GenerateDeck ==
  /\ phase = "query"
  /\ phase' = "done"
  /\ LET words == get_all_words
         carded == {w \in words : HasTranslations(get_word_data(w))}
     IN IF carded = {}
        THEN /\ result' = [op |-> "generate_deck", out |-> [raised |-> "none"]]
             /\ UNCHANGED words_data
        ELSE IF Cardinality(words) > 1
        THEN /\ result' = [op |-> "generate_deck",
                           out |-> [raised |-> "AttributeError"]]
             /\ UNCHANGED words_data
        ELSE LET word == CHOOSE w \in words : TRUE
                 word_data == DictPut(get_word_data(word),
                                      "wordHomophones", <<>>)
             IN /\ words_data' = DictPut(words_data, word, word_data)
                /\ result' =
                     [op |-> "generate_deck",
                      out |-> IF word_data.characters = <<>>
                              THEN [raised |-> "none"]
                              ELSE [raised |->
                                      AnalyzeInWord(word_data.characters[1],
                                                    word).raised]]
  /\ UNCHANGED <<pronunciations, char_to_words, pron_to_chars,
                 char_homophones, seen_words, log_a, rows_b, accepted_b,
                 blob>>

Next ==
  \/ \E row \in RowsA : ParseFirstRow(row)
  \/ FinishFirst
  \/ \E row \in RowsB : ParseSecondRow(row)
  \/ FinishSecond
  \/ \E word \in TestWords : QueryWord(word)
  \/ \E char \in TestChars : QueryChar(char)
  \/ \E word \in TestWords : \E char \in TestChars :
       QueryCharInWord(char, word)
  \/ GenerateDeck

Spec == Init /\ [][Next]_vars

-----------------------------------------------------------------------------
(* Vocabulary of the properties *)

Range(f) == {f[k] : k \in DOMAIN f}

(* every character any table mentions, as key or as member *)
KnownChars ==
  DOMAIN pronunciations \cup DOMAIN char_to_words \cup DOMAIN char_homophones
    \cup UNION Range(pron_to_chars) \cup UNION Range(char_homophones)
    \cup UNION {SeqToSet(words_data[w].characters) : w \in DOMAIN words_data}

KnownProns == DOMAIN pron_to_chars \cup Range(pronunciations)

LogRows == SeqToSet(log_a)

(* the step is one iteration of the first / second file's row loop *)
FirstStep == phase = "first" /\ Len(log_a') = Len(log_a) + 1

SecondStep == phase = "second" /\ rows_b' = rows_b + 1

-----------------------------------------------------------------------------
(* C1: for every character C and pronunciation P, C is in pron_to_chars[P] *)
(* exactly when P is the pronunciation the parser records for C            *)
(* (self.pronunciations, its character-to-pronunciation map).              *)
C1_Symmetry ==
  \A c \in KnownChars : \A p \in KnownProns :
    (c \in DictGet(pron_to_chars, p, {}))
      <=> (c \in DOMAIN pronunciations /\ pronunciations[c] = p)

-----------------------------------------------------------------------------
(* C2: a step that ingests the same source-A row as the step before it     *)
(* leaves pronunciations, pron_to_chars and char_to_words as they were.    *)
C2_Idempotent ==
  [][ (FirstStep /\ log_a # <<>> /\ log_a'[Len(log_a')] = log_a[Len(log_a)])
        => /\ pronunciations' = pronunciations
           /\ pron_to_chars' = pron_to_chars
           /\ char_to_words' = char_to_words ]_vars

(* C2 witness: an accepted row that stores words under its characters was  *)
(* ingested twice running.                                                 *)
C2_Witness ==
  /\ Len(log_a) >= 2
  /\ log_a[Len(log_a)] = log_a[Len(log_a) - 1]
  /\ AcceptedFirst(log_a[Len(log_a)])
  /\ \E w \in SeqToSet(RowWords(log_a[Len(log_a)])) :
       /\ WordChars(RowCharacters(log_a[Len(log_a)]), w) # <<>>
       /\ w \in UNION Range(char_to_words)

-----------------------------------------------------------------------------
(* C3: for every word with an accepted source-B row, get_word_data gives   *)
(* the pronunciation and the translations of the last such row, whatever   *)
(* source A or earlier source-B rows recorded.                             *)
C3_LastWriteWins ==
  \A w \in DOMAIN accepted_b :
    LET last == accepted_b[w][Len(accepted_b[w])] IN
    /\ w \in DOMAIN words_data
    /\ get_word_data(w).pronunciation = Strip(last[2])
    /\ get_word_data(w).translations = parse_translations(Strip(last[3]))

(* C3 witness: a word source A had given a pronunciation got two accepted  *)
(* source-B rows whose pronunciations and translations differ.             *)
C3_Witness ==
  \E w \in DOMAIN accepted_b :
    LET rows == accepted_b[w] IN
    /\ Len(rows) >= 2
    /\ Strip(rows[1][2]) # Strip(rows[Len(rows)][2])
    /\ parse_translations(Strip(rows[1][3]))
         # parse_translations(Strip(rows[Len(rows)][3]))
    /\ w \in seen_words
    /\ get_word_data(w).translations[<<"n">>] = << <<"a">>, <<"b">>, <<"c">> >>

-----------------------------------------------------------------------------
(* C4: for a character with two pronunciations P1 (the pronunciation of    *)
(* word W1) and P2 (that of word W2) with pron_to_chars[P1] different from *)
(* pron_to_chars[P2], the query scoped to W1 returns homophone characters  *)
(* that differ from the ones the unscoped query returns.                   *)
C4_ScopedDiffers ==
  result.op = "analyze_in_word" =>
    LET c == result.char
        w1 == result.word
        p1 == words_data[w1].pronunciation
    IN \A w2 \in DOMAIN words_data :
         LET p2 == words_data[w2].pronunciation IN
         ( /\ p1 # p2
           /\ c \in DictGet(pron_to_chars, p1, {})
           /\ c \in DictGet(pron_to_chars, p2, {})
           /\ w1 \in DictGet(char_to_words, c, {})
           /\ w2 \in DictGet(char_to_words, c, {})
           /\ pron_to_chars[p1] # pron_to_chars[p2] )
         => /\ result.out.raised = "none"
            /\ result.out.value.chars_with_same_pronunciation
                 # get_char_analysis(c).chars_with_same_pronunciation

-----------------------------------------------------------------------------
(* C5: the result of analysing character c in word w has words that do not *)
(* contain w and homophone characters that do not contain c.               *)
C5_SelfExclusion ==
  result.op = "analyze_in_word" =>
    /\ result.out.raised = "none"
    /\ result.word \notin result.out.value.words
    /\ result.char \notin result.out.value.chars_with_same_pronunciation

-----------------------------------------------------------------------------
(* C6: after source-A rows only, no punctuation symbol is a character key  *)
(* or member of pronunciations, pron_to_chars, char_to_words, the          *)
(* homophone table or a word's characters.                                 *)
Punctuation == { <<",">>, <<".">>, <<"!">>, <<";">>, <<"-">>, <<"?">> }

C6_NoPunctuation ==
  rows_b = 0 => KnownChars \cap Punctuation = {}

-----------------------------------------------------------------------------
(* C7 as claimed: every word listed by an accepted source-A row is in      *)
(* char_to_words[c] for every non-punctuation character c of its text.     *)
C7_AllLiteralChars ==
  \A row \in LogRows : AcceptedFirst(row) =>
    \A w \in SeqToSet(RowWords(row)) : \A c \in SeqToSet(ListOf(w)) :
      c \notin Punctuation => w \in DictGet(char_to_words, c, {})

(* C7 as amended: every word listed by an accepted source-A row is in      *)
(* char_to_words[c], and so in get_char_analysis(c).words, for every       *)
(* character token c of that same row that occurs in the word's text.      *)
C7_RowCharsLinked ==
  \A row \in LogRows : AcceptedFirst(row) =>
    \A w \in SeqToSet(RowWords(row)) :
      \A c \in SeqToSet(RowCharacters(row)) :
        Contains(c, w) => /\ w \in DictGet(char_to_words, c, {})
                          /\ w \in get_char_analysis(c).words

(* C7 witness: a listed word is linked to the row's token, next to another *)
(* word, while another character of its own text has no link to it.        *)
C7_Witness ==
  \E row \in LogRows : AcceptedFirst(row) /\
    \E w \in SeqToSet(RowWords(row)) :
      \E c \in SeqToSet(RowCharacters(row)) :
        /\ Contains(c, w)
        /\ get_char_analysis(c).words \ {w} # {}
        /\ \E d \in SeqToSet(ListOf(w)) :
             d \notin Punctuation /\ w \notin DictGet(char_to_words, d, {})

-----------------------------------------------------------------------------
(* C8 as claimed: a source-B row leaves pronunciations, pron_to_chars,     *)
(* char_to_words and the homophone table unchanged.                        *)
C8_TablesUntouched ==
  [][ SecondStep => UNCHANGED <<pronunciations, pron_to_chars,
                                char_to_words, char_homophones>> ]_vars

(* C8 as amended: a source-B row leaves the homophone table unchanged, so  *)
(* the homophones get_char_analysis returns depend on source A alone.      *)
C8_HomophonesUntouched ==
  [][ SecondStep => char_homophones' = char_homophones ]_vars

(* C8 witness: an accepted source-B row has put a pronunciation no         *)
(* source-A row carries into pron_to_chars, for a character with           *)
(* homophones.                                                             *)
C8_Witness ==
  /\ accepted_b # EmptyDict
  /\ \E p \in DOMAIN pron_to_chars :
       /\ \A row \in LogRows : AcceptedFirst(row) => Strip(row[2]) # p
       /\ pron_to_chars[p] \cap DOMAIN char_homophones # {}

-----------------------------------------------------------------------------
(* the positions in the first file of the accepted rows that store word w *)
StoringRows(w) ==
  {i \in 1..Len(log_a) :
     /\ AcceptedFirst(log_a[i])
     /\ w \in SeqToSet(RowWords(log_a[i]))
     /\ WordChars(RowCharacters(log_a[i]), w) # <<>>}

Min(S) == CHOOSE i \in S : \A j \in S : i <= j

(* C9 as claimed: with no source-B row ingested, every word record has an  *)
(* absent or empty pronunciation.                                          *)
C9_NoPronunciationFromA ==
  rows_b = 0 =>
    \A w \in DOMAIN words_data :
      \/ "pronunciation" \notin DOMAIN words_data[w]
      \/ words_data[w].pronunciation = <<>>

(* C9 as amended: with no source-B row ingested, every word record has the *)
(* non-empty trimmed pronunciation of the first accepted source-A row that *)
(* stored the word.                                                        *)
C9_FirstRowPronunciation ==
  rows_b = 0 =>
    \A w \in DOMAIN words_data :
      /\ StoringRows(w) # {}
      /\ words_data[w].pronunciation = Strip(log_a[Min(StoringRows(w))][2])
      /\ words_data[w].pronunciation # <<>>

(* C9 witness: a word was stored by two rows with different pronunciations *)
C9_Witness ==
  /\ rows_b = 0
  /\ \E w \in DOMAIN words_data : \E i, j \in StoringRows(w) :
       Strip(log_a[i][2]) # Strip(log_a[j][2])

-----------------------------------------------------------------------------
(* C10: across every step, each word in the index stays in it and keeps    *)
(* every character its characters held before the step.                    *)
C10_CharactersOnlyGrow ==
  [][ \A w \in DOMAIN words_data :
        /\ w \in DOMAIN words_data'
        /\ SeqToSet(words_data[w].characters)
             \subseteq SeqToSet(words_data'[w].characters) ]_vars

(* C10 witness: a word's characters grew in a later source-A row than the  *)
(* one that created it, and a source-B row then rewrote the record.        *)
C10_Witness ==
  \E w \in DOMAIN words_data :
    /\ words_data[w].all_characters # <<>>
    /\ ~(SeqToSet(words_data[w].characters)
           \subseteq SeqToSet(words_data[w].all_characters))
    /\ w \in DOMAIN accepted_b

-----------------------------------------------------------------------------
(* the malformed rows, in the claim's words *)
MalformedFirst(row) == Len(row) < 2 \/ Strip(row[2]) = <<>>

MalformedSecond(row) ==
  Len(row) < 3 \/ Strip(row[1]) = <<>> \/ Strip(row[3]) = <<>>

-----------------------------------------------------------------------------
(* C12: once both files are ingested, no step of the query phase, deck     *)
(* generation included, changes any table of the index.                    *)
C12_QueriesReadOnly ==
  [][ phase = "query" => UNCHANGED Index ]_vars

-----------------------------------------------------------------------------
EmptyAnalysis == [words |-> {}, chars_with_same_pronunciation |-> {}]

(* C13: a word or character that was never ingested gets an empty result   *)
(* and no failure: get_word_data gives the empty record, and the character *)
(* analysis, without and with a word argument, gives empty words and empty *)
(* homophone characters.                                                   *)
C13_UnknownQueriesEmpty ==
  phase = "query" =>
    /\ \A w \in TestWords \ DOMAIN words_data : get_word_data(w) = EmptyDict
    /\ \A c \in TestChars \ KnownChars :
         /\ CallGetCharAnalysis(<<c>>).raised = "none"
         /\ CallGetCharAnalysis(<<c>>).value = EmptyAnalysis
         /\ \A w \in TestWords :
              /\ AnalyzeInWord(c, w).raised = "none"
              /\ AnalyzeInWord(c, w).value = EmptyAnalysis

-----------------------------------------------------------------------------
(* the accepted rows of the first file read so far: their character       *)
(* tokens and the words they list                                          *)
AcceptedRows ==
  {[characters |-> RowCharacters(r), words |-> SeqToSet(RowWords(r))] :
     r \in {r \in LogRows : AcceptedFirst(r)}}

(* the words listed by the accepted rows of the first file read so far *)
ListedWords == UNION {row.words : row \in AcceptedRows}

(* the row tokens that the rows listing w found in w *)
MergedTokensIn(rows, w) ==
  UNION {SeqToSet(WordChars(row.characters, w)) :
           row \in {r \in rows : w \in r.words}}

MergedTokens(w) == MergedTokensIn(AcceptedRows, w)

-----------------------------------------------------------------------------
(* every pronunciation attested for character c *)
AttestedProns(c) ==
  {p \in DOMAIN pron_to_chars : c \in pron_to_chars[p]}
    \cup (IF c \in DOMAIN pronunciations THEN {pronunciations[c]} ELSE {})

(* the union of pron_to_chars over the attested pronunciations, without c *)
PronMates(c) ==
  UNION {DictGet(pron_to_chars, p, {}) : p \in AttestedProns(c)} \ {c}

(* the other tokens of the accepted first-file rows that hold c *)
RowMatesIn(rows, c) ==
  UNION {SeqToSet(row.characters) :
           row \in {r \in rows : c \in SeqToSet(r.characters)}} \ {c}

RowMates(c) == RowMatesIn(AcceptedRows, c)

(* C15 as claimed: without a word, the homophone characters reported for a *)
(* character are the union of pron_to_chars[p], over every pronunciation p *)
(* attested for it, minus the character.                                   *)
C15_UnionOverPronunciations ==
  \A c \in KnownChars \cup TestChars :
    get_char_analysis(c).chars_with_same_pronunciation = PronMates(c)

(* C15 as amended: without a word, the homophone characters reported for a *)
(* character are the other character tokens of the accepted source-A rows  *)
(* that hold it, a subset of the union over its attested pronunciations.   *)
C15_SameRowTokens ==
  LET rows == AcceptedRows
  IN \A c \in KnownChars \cup TestChars :
       LET mates == RowMatesIn(rows, c)
       IN /\ get_char_analysis(c).chars_with_same_pronunciation = mates
          /\ mates \subseteq PronMates(c)

(* C15 witness: the one-argument query answered for a character that has  *)
(* a row mate and another character of the same pronunciation in another   *)
(* row                                                                     *)
C15_Witness ==
  /\ result.op = "get_char_analysis"
  /\ result.out.raised = "none"
  /\ result.out.value.chars_with_same_pronunciation = RowMates(result.char)
  /\ RowMates(result.char) # {}
  /\ RowMates(result.char) # PronMates(result.char)

-----------------------------------------------------------------------------
(* _parse_translations on its own: a translation blob is put together from *)
(* segments joined by `|` and then parsed.                                 *)

MaxParts == 2

(* the blob `pronoun: we, us` *)
PronounBlob ==
  <<"p", "r", "o", "n", "o", "u", "n", ":", " ", "w", "e", ",", " ", "u", "s">>

Segments ==
  { <<"n", ":", "a">>,
    <<"n", ":", " ", "a", ",", " ", "b", " ">>,
    <<" ", "n", " ", ":", "b">>,
    <<"v", ":", "c">>,
    <<"a">>,
    <<"n", ":">>,
    <<":", "a">>,
    <<"n", ":", "a", ":", "b">>,
    <<"n", ":", ",", "a", ",", ",", " ">>,
    <<"n", ":", ",">>,
    <<>>,
    PronounBlob }

InitT ==
  /\ words_data = EmptyDict
  /\ pronunciations = EmptyDict
  /\ char_to_words = EmptyDict
  /\ pron_to_chars = EmptyDict
  /\ char_homophones = EmptyDict
  /\ seen_words = {}
  /\ phase = "blob"
  /\ result = NoResult
  /\ log_a = <<>>
  /\ rows_b = 0
  /\ accepted_b = EmptyDict
  /\ blob \in Segments

AppendSegment(segment) ==
  /\ phase = "blob"
  /\ Len(Split(blob, "|")) < MaxParts
  /\ blob' = blob \o <<"|">> \o segment
  /\ IndexUnchanged
  /\ UNCHANGED <<phase, result, log_a, rows_b, accepted_b>>

(* translations = self._parse_translations(translation_str) *)
ParseTranslations ==
  /\ phase = "blob"
  /\ phase' = "parsed"
  /\ result' = [op |-> "_parse_translations", out |-> parse_translations(blob)]
  /\ IndexUnchanged
  /\ UNCHANGED <<log_a, rows_b, accepted_b, blob>>

NextT ==
  \/ \E segment \in Segments : AppendSegment(segment)
  \/ ParseTranslations

SpecT == InitT /\ [][NextT]_vars

-----------------------------------------------------------------------------
(* vocabulary of C16: the segments of a blob, and for a segment holding    *)
(* `:` its trimmed category, the text after the first `:` and its trimmed  *)
(* non-empty glosses                                                       *)
ColonSegments(b) ==
  {i \in 1..Len(Split(b, "|")) : Contains(<<":">>, Split(b, "|")[i])}

Category(b, i) == Strip(SplitOnce(Split(b, "|")[i], ":")[1])

GlossText(b, i) == Strip(SplitOnce(Split(b, "|")[i], ":")[2])

Glosses(b, i) == StripNonEmpty(Split(GlossText(b, i), ","))

(* the glosses of the segments of category k, in segment order *)
Expected(b, k) ==
  Flatten([i \in 1..Len(Split(b, "|")) |->
             IF i \in ColonSegments(b) /\ Category(b, i) = k
             THEN Glosses(b, i) ELSE <<>>])

PronounWeUs == parse_translations(PronounBlob)

PronounWeUsExpected ==
  [k \in { <<"p", "r", "o", "n", "o", "u", "n">> } |->
     << <<"w", "e">>, <<"u", "s">> >>]

(* C16 as claimed: the parsed mapping gives every category the glosses of  *)
(* all segments holding `:` whose text before the first `:` is that        *)
(* category, in order, repeated categories accumulating; segments without  *)
(* `:` give nothing; `pronoun: we, us` gives {"pronoun": ["we", "us"]}.    *)
C16_EverySegmentContributes ==
  /\ PronounWeUs = PronounWeUsExpected
  /\ phase = "parsed" =>
       \A k \in DOMAIN result.out
                \cup {Category(blob, i) : i \in ColonSegments(blob)} :
         DictGet(result.out, k, <<>>) = Expected(blob, k)

(* C16 as amended: the mapping's keys are the trimmed categories of the    *)
(* segments holding `:` with a non-empty trimmed category and a non-empty  *)
(* trimmed text after the first `:`; each key has the glosses of all       *)
(* segments of its category, in order; a segment with an empty category    *)
(* gives nothing.                                                          *)
C16_NamedSegmentsContribute ==
  /\ PronounWeUs = PronounWeUsExpected
  /\ phase = "parsed" =>
       /\ DOMAIN result.out =
            {Category(blob, i) :
               i \in {j \in ColonSegments(blob) : /\ Category(blob, j) # <<>>
                                                  /\ GlossText(blob, j) # <<>>}}
       /\ \A k \in DOMAIN result.out : result.out[k] = Expected(blob, k)

(* C16 witness: a parsed blob whose two segments have the same category    *)
(* and glosses each, the second segment's glosses following the first's    *)
C16_Witness ==
  /\ phase = "parsed"
  /\ ColonSegments(blob) = {1, 2}
  /\ Category(blob, 1) = Category(blob, 2)
  /\ Glosses(blob, 1) # <<>>
  /\ Glosses(blob, 2) # <<>>
  /\ Glosses(blob, 1) # Glosses(blob, 2)
  /\ Category(blob, 1) \in DOMAIN result.out
  /\ result.out[Category(blob, 1)] = Glosses(blob, 1) \o Glosses(blob, 2)

====
